---- MODULE Spec2Model ----
(***************************************************************************)
(* The subscription service of the observability workshop: the in-memory  *)
(* SubscriptionRepository, the PaymentService client and the V1/V2/V3     *)
(* HTTP handlers that drive them.                                         *)
(*                                                                         *)
(* The specifications share the repository operators:                     *)
(*   SpecRepo  calls the repository's methods directly (every method runs *)
(*             under r.mu, so a call is one atomic step);                  *)
(*   Spec      runs the HTTP handlers of the three versions in two        *)
(*             concurrent request goroutines;                              *)
(*   SpecLock  runs the repository's methods statement by statement under *)
(*             r.mu in three goroutines (SpecLockFair: with a fair        *)
(*             scheduler);                                                 *)
(*   SpecPay   runs the payment service: its HTTP handler and its         *)
(*             PaymentProcessor;                                           *)
(*   SpecGauge runs the create, update and delete handlers with the gauge *)
(*             MetricsV3.SubscriptionsActive;                              *)
(*   SpecLog   runs Write and Close of the LogstashWriter statement by    *)
(*             statement in two goroutines.                               *)
(***************************************************************************)
EXTENDS Integers, Sequences, FiniteSets, TLC

(* ---------------------------------------------------------------- bounds *)

\* rand.Int() is drawn from 1..MaxId
MaxId == 2
\* time.Now() is drawn from 1..MaxClock (0 is the zero time.Time)
MaxClock == 2
\* SpecRepo counts at most MaxCreates calls of Create
MaxCreates == 3
\* SpecLock: rand.Int() is drawn from 1..MaxKeys
MaxKeys == 1
\* SpecPay: the amounts of payment requests go up to MaxAmountSteps - 1 steps
\* of 2.00
MaxAmountSteps == 11
\* SpecGauge: the gauge moves within -MaxGauge .. MaxGauge
MaxGauge == 2
\* SpecLog: the writer dials at most MaxDials connections
MaxDials == 2
\* SpecLog: len(p) and len(logJSON) are drawn from 1..MaxLogLen
MaxLogLen == 2

\* time.Time.AddDate(1, 0, 0), in clock units
Year == 10

RandInts == 1..MaxId
Times == 1..MaxClock
\* Spec: the request goroutines, the clock readings and the decoded fields
Requests == {"r1", "r2"}
Versions == {"v1", "v2", "v3"}
HandlerTimes == {1}
UserIDs == {"", "u1"}
Plans == {"", "basic", "premium", "gold"}
\* the strings SpecRepo passes to the repository, which validates nothing
RepoUserIDs == {"u1", "u2"}
RepoPlans == {"basic", "premium"}

(* ---------------------------------------------------------------- models *)

\* models.Subscription{}: the zero value
ZeroSubscription ==
    [ID |-> "", UserID |-> "", Plan |-> "", StartDate |-> 0, EndDate |-> 0]

\* a validation that only asks for some plan
IsValidPlan_AnyNonEmpty(plan) == plan # ""

IsValidPlan(plan) == plan = "basic" \/ plan = "premium"

\* prices in cents
GetPlanPrice(plan) ==
    CASE plan = "basic" -> 1000
      [] plan = "premium" -> 2000
      [] OTHER -> 0

\* fmt.Sprintf("sub_%d", n)
SubID(n) == "sub_" \o ToString(n)

AddDate(t) == t + Year

SubIDs == {SubID(n) : n \in RandInts}

\* a payment request that leaves the amount at its zero value
PaymentRequest_NoAmount(sub) ==
    [SubscriptionID |-> sub.ID, Amount |-> 0, Plan |-> sub.Plan]

\* models.PaymentRequest built by the create handlers from the created record
PaymentRequest(sub) ==
    [SubscriptionID |-> sub.ID, Amount |-> GetPlanPrice(sub.Plan), Plan |-> sub.Plan]

(* -------------------------------------------------------- PaymentService *)

Nil == "nil"

\* What the HTTP exchange of one ProcessPayment call does: the request cannot
\* be built, client.Do fails (transport error, the request context cancelled
\* or past its deadline, the client's Timeout), or a response arrives with a
\* status and a body that decodes as a PaymentResponse or does not.
PaymentExchanges ==
    {[do |-> d, status |-> 0, decodes |-> FALSE] :
        d \in {"new_request_error", "transport_error", "context_canceled",
               "deadline_exceeded"}}
    \cup {[do |-> "ok", status |-> st, decodes |-> FALSE] : st \in {400, 404, 500}}
    \cup {[do |-> "ok", status |-> 200, decodes |-> b] : b \in BOOLEAN}

NoExchange == [do |-> "none", status |-> 0, decodes |-> FALSE]

\* the error ProcessPayment returns for the exchange x, or Nil
ProcessPayment(x) ==
    IF x.do = "new_request_error" THEN "failed to create payment request"
    ELSE IF x.do # "ok" THEN "failed to send payment request"
    ELSE IF x.status # 200 THEN "payment failed with status"
    ELSE IF ~x.decodes THEN "failed to decode payment response"
    ELSE Nil

\* TracingV3.TraceOperation returns the error of the operation it wraps
TraceOperation(err) == err

(* ------------------------------------------------ SubscriptionRepository *)

\* r.subscriptions[k] = v
MapPut(m, k, v) == [x \in (DOMAIN m) \cup {k} |-> IF x = k THEN v ELSE m[x]]

\* delete(r.subscriptions, k)
MapDelete(m, k) == [x \in (DOMAIN m) \ {k} |-> m[x]]

\* NewSubscriptionRepository: the empty map
NewSubscriptionRepository == [x \in {} |-> ZeroSubscription]

\* a Create that returns the record without storing it
Create_NoInsert(m, n, userID, plan, t1, t2) ==
    [store |-> m,
     ret |-> [ID |-> SubID(n), UserID |-> userID, Plan |-> plan,
              StartDate |-> t1, EndDate |-> AddDate(t2)]]

\* n is rand.Int(), t1 and t2 the two readings of time.Now()
Create(m, n, userID, plan, t1, t2) ==
    LET sub == [ID |-> SubID(n), UserID |-> userID, Plan |-> plan,
                StartDate |-> t1, EndDate |-> AddDate(t2)]
    IN  [store |-> MapPut(m, sub.ID, sub), ret |-> sub]

\* the slice's order is the map's iteration order: a set of records
GetAll(m) == {m[k] : k \in DOMAIN m}

GetByID(m, id) ==
    IF id \in DOMAIN m
    THEN [ret |-> m[id], found |-> TRUE]
    ELSE [ret |-> ZeroSubscription, found |-> FALSE]

\* an Update that stores a new record instead of changing the one it found
Update_Replaces(m, id, userID, plan) ==
    IF id \notin DOMAIN m
    THEN [store |-> m, ret |-> ZeroSubscription, found |-> FALSE]
    ELSE LET sub == [ZeroSubscription EXCEPT !.ID = id, !.UserID = userID,
                                             !.Plan = plan]
         IN  [store |-> MapPut(m, id, sub), ret |-> sub, found |-> TRUE]

\* an Update without the exists check: the zero record, changed, is stored
Update_Upserts(m, id, userID, plan) ==
    LET old == IF id \in DOMAIN m THEN m[id] ELSE ZeroSubscription
        sub == [old EXCEPT !.UserID = userID, !.Plan = plan]
    IN  [store |-> MapPut(m, id, sub),
         ret |-> IF id \in DOMAIN m THEN sub ELSE ZeroSubscription,
         found |-> id \in DOMAIN m]

Update(m, id, userID, plan) ==
    IF id \notin DOMAIN m
    THEN [store |-> m, ret |-> ZeroSubscription, found |-> FALSE]
    ELSE LET sub == [m[id] EXCEPT !.UserID = userID, !.Plan = plan]
         IN  [store |-> MapPut(m, id, sub), ret |-> sub, found |-> TRUE]

\* a Delete that reports every identifier as found
Delete_AlwaysFound(m, id) ==
    IF id \notin DOMAIN m
    THEN [store |-> m, ret |-> ZeroSubscription, found |-> TRUE]
    ELSE [store |-> MapDelete(m, id), ret |-> m[id], found |-> TRUE]

\* a Delete that returns the record and leaves it in the map
Delete_KeepsEntry(m, id) ==
    IF id \notin DOMAIN m
    THEN [store |-> m, ret |-> ZeroSubscription, found |-> FALSE]
    ELSE [store |-> m, ret |-> m[id], found |-> TRUE]

Delete(m, id) ==
    IF id \notin DOMAIN m
    THEN [store |-> m, ret |-> ZeroSubscription, found |-> FALSE]
    ELSE [store |-> MapDelete(m, id), ret |-> m[id], found |-> TRUE]

Count(m) == Cardinality(DOMAIN m)

(* ------------------------------------------------------------- the state *)

VARIABLES
    subscriptions,  \* SubscriptionRepository.subscriptions
    last,           \* SpecRepo: the repository call that is returning, or NoCall
    lastDelete,     \* SpecRepo: the latest Delete call with no Create after it
    creates,        \* SpecRepo: the Create calls made while no Delete removed
                    \*           a record (NoRun once one did)
    req,            \* Spec: where each request goroutine is in its handler
    resp,           \* Spec: the response a handler is returning, or NoResp
    solo,           \* Spec: the create request that has run with no other
                    \*       request since it began, and Count() when it began
    mu,             \* SpecLock: SubscriptionRepository.mu
    goroutines,     \* SpecLock: where each goroutine is in its repository call
    processor,      \* SpecPay: the call of the payment service that is running
    subscriptionsActive,  \* SpecGauge: MetricsV3.SubscriptionsActive
    logstash,       \* SpecLog: the LogstashWriter and the connections it dialled
    logcalls        \* SpecLog: where each goroutine is in its call of the writer

vars == <<subscriptions, last, lastDelete, creates, req, resp, solo, mu,
         goroutines, processor, subscriptionsActive, logstash, logcalls>>
repoVars == <<last, lastDelete, creates>>
handlerVars == <<req, resp, solo>>
lockVars == <<mu, goroutines>>
processorVars == <<processor>>
gaugeVars == <<subscriptionsActive>>
logVars == <<logstash, logcalls>>
observeVars == <<subscriptionsActive, logstash, logcalls>>

NoCall == [op |-> "none"]
NoDelete == [id |-> "", found |-> FALSE]
NoRun == 0 - 1
IdleReq == [pc |-> "idle"]
NoResp == [op |-> "none"]
NoSolo == [r |-> "", count |-> 0]

(* ------------------------------------------ payment service: the models *)
(* Amounts are in cents, fees in thousandths of a cent.                     *)

\* amounts from -2.00 to 20.00
PayAmounts == {(k - 1) * 200 : k \in 0..MaxAmountSteps}
PayPlans == {"", "basic", "premium", "enterprise"}
PaymentRequests ==
    [SubscriptionID : {"", "sub_1"}, Amount : PayAmounts, Plan : PayPlans]

\* PROCESSING_DELAY (0 or some milliseconds) and ENABLE_FAILURES
ProcessorConfigs == [ProcessingDelay : {0, 100}, EnableFailures : BOOLEAN]

\* the ways a context.Context is done: Canceled, DeadlineExceeded
ContextErrors == {"context_canceled", "deadline_exceeded"}

\* a nil error
NoPaymentError == [Code |-> "", Type |-> ""]

\* a validation that looks at the plan first
ValidatePaymentRequest_PlanFirst(r) ==
    IF r.Plan = ""
    THEN [Code |-> "MISSING_PLAN", Type |-> "validation_error"]
    ELSE IF r.SubscriptionID = ""
    THEN [Code |-> "MISSING_SUBSCRIPTION_ID", Type |-> "validation_error"]
    ELSE IF r.Amount <= 0
    THEN [Code |-> "INVALID_AMOUNT", Type |-> "validation_error"]
    ELSE NoPaymentError

ValidatePaymentRequest(r) ==
    IF r.SubscriptionID = ""
    THEN [Code |-> "MISSING_SUBSCRIPTION_ID", Type |-> "validation_error"]
    ELSE IF r.Amount <= 0
    THEN [Code |-> "INVALID_AMOUNT", Type |-> "validation_error"]
    ELSE IF r.Plan = ""
    THEN [Code |-> "MISSING_PLAN", Type |-> "validation_error"]
    ELSE NoPaymentError

\* the errors GetRandomFailureType chooses from
GetRandomFailureType ==
    {[Code |-> "INSUFFICIENT_FUNDS", Type |-> "insufficient_funds"],
     [Code |-> "INVALID_CARD", Type |-> "invalid_card"],
     [Code |-> "NETWORK_ERROR", Type |-> "network_error"],
     [Code |-> "PROCESSING_ERROR", Type |-> "processing_error"],
     [Code |-> "TIMEOUT", Type |-> "timeout"]}

\* 0.30
FeeFloor == 30000

\* fees with no minimum
CalculateFees_NoFloor(amount, plan) ==
    LET baseRate == CASE plan = "premium" -> 25
                      [] plan = "enterprise" -> 20
                      [] OTHER -> 29
    IN  amount * baseRate

\* baseRate in thousandths: 0.029, 0.025, 0.02
CalculateFees(amount, plan) ==
    LET baseRate == CASE plan = "premium" -> 25
                      [] plan = "enterprise" -> 20
                      [] OTHER -> 29
        fee == amount * baseRate
    IN  IF fee < FeeFloor THEN FeeFloor ELSE fee

\* a nil *models.PaymentResponse
NilResponse == [Status |-> "", Amount |-> 0, Fees |-> 0]

\* the request context of the call: not done, or done with err while the
\* processor was at during
LiveContext == [err |-> "", during |-> ""]

\* the paths the payment service's mux has handlers for (main.registerRoutes
\* and handlers.RegisterRoutes)
RegisteredRoutes == {"/metrics", "/process", "/health"}

\* the path PaymentService.ProcessPayment appends to its base URL
PaymentServicePath == "/payments"

\* the HTTP requests the payment service receives
RequestPaths == {PaymentServicePath, "/process"}
RequestMethods == {"POST", "GET"}

\* the processor called directly, not through the HTTP handler
NoHTTP == [pc |-> "none", path |-> "", method |-> "", decodes |-> FALSE, status |-> 0]

\* an error handler that answers every error with 200
handlePaymentError_OK(err) == 200

\* the status handlePaymentError writes for the PaymentError err
handlePaymentError(err) ==
    IF err.Type \in {"processing_error", "network_error", "timeout"}
    THEN 500
    ELSE 400

\* req, cfg: the request and the configuration of the call; slept: the
\* processing delay was slept; rolled: ShouldSimulateFailure was called;
\* response, err: the values being returned; http: the HTTP request that
\* the call serves, the position of its handler and the status written to it
IdleProcessor ==
    [pc |-> "idle",
     req |-> [SubscriptionID |-> "", Amount |-> 0, Plan |-> ""],
     cfg |-> [ProcessingDelay |-> 0, EnableFailures |-> FALSE],
     ctx |-> LiveContext, slept |-> FALSE, rolled |-> FALSE,
     response |-> NilResponse, err |-> NoPaymentError,
     http |-> NoHTTP]

(* ------------------------------------------------- r.mu: a sync.RWMutex *)
(* w is the goroutine that holds the writer mutex rw.w and has announced    *)
(* itself to the readers (taking rw.w and the announcement are one step),   *)
(* wq the goroutines queued on rw.w (handed over in arrival order), readers *)
(* the goroutines that hold the read lock, blocked the readers that arrived *)
(* while a writer held or awaited the lock.                                 *)

Goroutines == {"g1", "g2", "g3"}
ReadOps == {"GetAll", "GetByID", "Count"}
WriteOps == {"Create", "Update", "Delete"}
\* the identifiers SpecLock draws and looks up
LockInts == 1..MaxKeys
LockIDs == {SubID(n) : n \in LockInts}
\* the user id and plan the writers of SpecLock pass
LockWrites == {[userID |-> "u1", plan |-> "basic"],
               [userID |-> "u2", plan |-> "premium"]}

NewRWMutex == [w |-> "", wq |-> <<>>, readers |-> {}, blocked |-> {}]

\* a reader that takes the read lock whatever the writers do
RLock_Barges(m, g) == [m EXCEPT !.readers = @ \cup {g}]

\* r.mu.RLock() as called: g holds the read lock at once unless a writer
\* holds or awaits the lock
RLock(m, g) ==
    IF m.w = ""
    THEN [m EXCEPT !.readers = @ \cup {g}]
    ELSE [m EXCEPT !.blocked = @ \cup {g}]

\* r.mu.RLock() returns to g
RLocked(m, g) == g \in m.readers

\* r.mu.Lock() as called
Lock(m, g) ==
    IF m.w = ""
    THEN [m EXCEPT !.w = g]
    ELSE [m EXCEPT !.wq = Append(@, g)]

\* a writer that does not wait for the readers to leave
Locked_IgnoresReaders(m, g) == m.w = g

\* r.mu.Lock() returns to g: g is the writer and the readers have left
Locked(m, g) == m.w = g /\ m.readers = {}

\* r.mu.RUnlock()
RUnlock(m, g) == [m EXCEPT !.readers = @ \ {g}]

\* an Unlock that wakes no reader
Unlock_KeepsReadersBlocked(m, g) ==
    [m EXCEPT !.w = IF m.wq = <<>> THEN "" ELSE Head(m.wq),
              !.wq = IF m.wq = <<>> THEN <<>> ELSE Tail(m.wq)]

\* r.mu.Unlock(): the blocked readers are woken, then rw.w is passed on
Unlock(m, g) ==
    [w |-> IF m.wq = <<>> THEN "" ELSE Head(m.wq),
     wq |-> IF m.wq = <<>> THEN <<>> ELSE Tail(m.wq),
     readers |-> m.blocked,
     blocked |-> {}]

\* what a repository method returns
NoResult == [sub |-> ZeroSubscription, found |-> FALSE, subs |-> {}, count |-> 0]

\* op: the method g runs; id: a fixed identifier argument, if any; sub: the
\* local variable sub; visited: the keys GetAll has ranged over; ret: the
\* values being returned; raced (history, kept by a call of Delete): the
\* identifier that another call of Delete removed while this call was
\* waiting for the lock, with no Create of that identifier since
IdleGoroutine ==
    [pc |-> "idle", op |-> "", id |-> "", sub |-> ZeroSubscription,
     visited |-> {}, ret |-> NoResult, raced |-> ""]

(* --------------------------------------------------------- LogstashWriter *)

\* the goroutines that log through the writer
LogGoroutines == {"l1", "l2"}

\* w.conn == nil
NoConn == 0 - 1

\* mu: the goroutine that holds w.mu, or ""; conn: w.conn, the number of the
\* connection or NoConn; open: the connections dialled and not closed;
\* dials: how many connections have been dialled; panicked: the process has
\* stopped on a nil dereference
NewLogWriter ==
    [mu |-> "", conn |-> NoConn, open |-> {}, dials |-> 0, panicked |-> FALSE]

\* op: "Write" or "Close"; len: len(p); parses: p is a JSON object; used:
\* the connection the call works on; dialled: connect dialled it; total:
\* len(logJSON); written: the bytes of logJSON written; failed: the step of
\* Write that failed; n, err: the values being returned
IdleLogCall ==
    [pc |-> "idle", op |-> "", len |-> 0, parses |-> FALSE, used |-> NoConn,
     dialled |-> FALSE, total |-> 0, written |-> 0, failed |-> "", n |-> 0,
     err |-> Nil]

Init ==
    /\ subscriptions = NewSubscriptionRepository
    /\ last = NoCall
    /\ lastDelete = NoDelete
    /\ creates = 0
    /\ req = [r \in Requests |-> IdleReq]
    /\ resp = NoResp
    /\ solo = NoSolo
    /\ mu = NewRWMutex
    /\ goroutines = [g \in Goroutines |-> IdleGoroutine]
    /\ processor = IdleProcessor
    /\ subscriptionsActive = 0
    /\ logstash = NewLogWriter
    /\ logcalls = [g \in LogGoroutines |-> IdleLogCall]

(* ------------------------------------- SpecRepo: the repository's methods *)
(* A client calls one method at a time. The call runs under r.mu and is    *)
(* one step; its arguments, its results and the map before it are kept in  *)
(* last until the client takes the result (RepoReturn).                     *)

RepoCreate ==
    /\ UNCHANGED <<handlerVars, lockVars, processorVars, observeVars>>
    /\ last = NoCall
    /\ creates = NoRun \/ creates < MaxCreates
    /\ \E n \in RandInts, userID \in RepoUserIDs, plan \in RepoPlans,
          t1, t2 \in Times :
         /\ t1 <= t2
         /\ LET c == Create(subscriptions, n, userID, plan, t1, t2)
            IN  /\ subscriptions' = c.store
                /\ last' = [op |-> "Create", id |-> c.ret.ID, userID |-> userID,
                            plan |-> plan, ret |-> c.ret, found |-> TRUE,
                            before |-> subscriptions]
    /\ creates' = IF creates = NoRun THEN NoRun ELSE creates + 1
    /\ lastDelete' = NoDelete

RepoGetAll ==
    /\ UNCHANGED <<handlerVars, lockVars, processorVars, observeVars>>
    /\ last = NoCall
    /\ last' = [op |-> "GetAll", all |-> GetAll(subscriptions),
                before |-> subscriptions]
    /\ UNCHANGED <<subscriptions, lastDelete, creates>>

RepoGetByID ==
    /\ UNCHANGED <<handlerVars, lockVars, processorVars, observeVars>>
    /\ last = NoCall
    /\ \E id \in SubIDs :
         LET c == GetByID(subscriptions, id)
         IN  last' = [op |-> "GetByID", id |-> id, ret |-> c.ret,
                      found |-> c.found, before |-> subscriptions]
    /\ UNCHANGED <<subscriptions, lastDelete, creates>>

RepoUpdate ==
    /\ UNCHANGED <<handlerVars, lockVars, processorVars, observeVars>>
    /\ last = NoCall
    /\ \E id \in SubIDs, userID \in RepoUserIDs, plan \in RepoPlans :
         LET c == Update(subscriptions, id, userID, plan)
         IN  /\ subscriptions' = c.store
             /\ last' = [op |-> "Update", id |-> id, userID |-> userID,
                         plan |-> plan, ret |-> c.ret, found |-> c.found,
                         before |-> subscriptions]
    /\ UNCHANGED <<lastDelete, creates>>

RepoDelete ==
    /\ UNCHANGED <<handlerVars, lockVars, processorVars, observeVars>>
    /\ last = NoCall
    /\ \E id \in SubIDs :
         LET c == Delete(subscriptions, id)
         IN  /\ subscriptions' = c.store
             /\ last' = [op |-> "Delete", id |-> id, ret |-> c.ret,
                         found |-> c.found, before |-> subscriptions,
                         previous |-> lastDelete]
             /\ lastDelete' = [id |-> id, found |-> c.found]
             /\ creates' = IF c.found THEN NoRun ELSE creates

RepoCount ==
    /\ UNCHANGED <<handlerVars, lockVars, processorVars, observeVars>>
    /\ last = NoCall
    /\ last' = [op |-> "Count", count |-> Count(subscriptions),
                before |-> subscriptions]
    /\ UNCHANGED <<subscriptions, lastDelete, creates>>

RepoReturn ==
    /\ UNCHANGED <<handlerVars, lockVars, processorVars, observeVars>>
    /\ last # NoCall
    /\ last' = NoCall
    /\ UNCHANGED <<subscriptions, lastDelete, creates>>

NextRepo ==
    \/ RepoCreate
    \/ RepoGetAll
    \/ RepoGetByID
    \/ RepoUpdate
    \/ RepoDelete
    \/ RepoCount
    \/ RepoReturn

SpecRepo == Init /\ [][NextRepo]_vars

(* --------------------------------------------------- Spec: the handlers *)
(* A handler runs in its request's goroutine. Each step below is one      *)
(* visit of the repository (a method call under r.mu) together with the   *)
(* handler's code around it; the payment call returns at the start of the *)
(* step that reconciles. The response being written is kept in resp until *)
(* the handler has returned (HandlerReturns).                              *)

RequestBodies ==
    {[decodes |-> FALSE, user_id |-> "", plan |-> ""]}
    \cup {[decodes |-> TRUE, user_id |-> u, plan |-> p] : u \in UserIDs, p \in Plans}

ErrorBody == [kind |-> "error", sub |-> ZeroSubscription, subs |-> {}]
NoContent == [kind |-> "empty", sub |-> ZeroSubscription, subs |-> {}]
SubBody(sub) == [kind |-> "sub", sub |-> sub, subs |-> {}]
ListBody(subs) == [kind |-> "list", sub |-> ZeroSubscription, subs |-> subs]

\* what is recorded of a finished request: the response (status, body) and
\* what the handler did on the way (the decoded request, the payment
\* request it issued and how that exchange went, its calls of
\* Repository.Delete and of Repository.Update, and in steps the calls of
\* Repository.Create, PaymentService.ProcessPayment and Repository.Delete a
\* create handler made, in the order it made them)
Response(r, v, op, status, body) ==
    [op |-> op, ver |-> v, r |-> r, status |-> status, body |-> body,
     id |-> "", in |-> [decodes |-> FALSE, user_id |-> "", plan |-> ""],
     payments |-> <<>>, exchange |-> NoExchange, deletes |-> <<>>,
     updateFound |-> FALSE, updateCalled |-> FALSE,
     before |-> subscriptions,
     solo |-> FALSE, countBefore |-> 0, written |-> FALSE, steps |-> <<>>]

OthersIdle(r) == \A q \in Requests \ {r} : req[q] = IdleReq

\* History kept for the create requests waiting for their payment: request
\* r has just made a call of Create, Update or Delete that wrote the entry of
\* id (wrote = TRUE), which every other create request that provisioned an
\* entry under id is told (written).
Written(r, id, wrote) ==
    [q \in Requests |->
        IF wrote /\ q # r /\ req[q].pc = "charging" /\ req[q].sub.ID = id
        THEN [req[q] EXCEPT !.written = TRUE]
        ELSE req[q]]

\* a handler answers in the step it began in
Answer(r, response) ==
    /\ resp' = response
    /\ solo' = NoSolo

\* createSubscription up to the payment request: decode, validate, Create
createSubscription(r, v) ==
    /\ resp = NoResp
    /\ req[r] = IdleReq
    /\ \E in \in RequestBodies :
         LET rejected == [Response(r, v, "create", 400, ErrorBody) EXCEPT !.in = in]
         IN  IF ~in.decodes
             THEN Answer(r, rejected) /\ UNCHANGED <<subscriptions, req>>
             ELSE IF in.user_id = "" \/ in.plan = ""
             THEN Answer(r, rejected) /\ UNCHANGED <<subscriptions, req>>
             ELSE IF ~IsValidPlan(in.plan)
             THEN Answer(r, rejected) /\ UNCHANGED <<subscriptions, req>>
             ELSE \E n \in RandInts, t1, t2 \in HandlerTimes :
                    /\ t1 <= t2
                    /\ LET c == Create(subscriptions, n, in.user_id, in.plan, t1, t2)
                       IN  /\ subscriptions' = c.store
                           /\ req' = [Written(r, c.ret.ID, TRUE) EXCEPT ![r] =
                                  [pc |-> "charging", ver |-> v, in |-> in,
                                   sub |-> c.ret,
                                   paymentReq |-> PaymentRequest(c.ret),
                                   written |-> FALSE, steps |-> <<"Create">>]]
                    /\ solo' = IF OthersIdle(r)
                               THEN [r |-> r, count |-> Count(subscriptions)]
                               ELSE NoSolo
                    /\ UNCHANGED resp
    /\ UNCHANGED <<repoVars, lockVars, processorVars, observeVars>>

\* createSubscription from the return of ProcessPayment (exchange x) on;
\* compensate: the handler calls Repository.Delete(sub.ID) on an error
Reconcile(r, v, err, x, compensate) ==
    LET sub == req[r].sub
        d == Delete(subscriptions, sub.ID)
        done == [Response(r, v, "create", 200, SubBody(sub)) EXCEPT
                    !.id = sub.ID, !.in = req[r].in,
                    !.payments = <<req[r].paymentReq>>, !.exchange = x,
                    !.solo = (solo.r = r), !.countBefore = solo.count,
                    !.written = req[r].written,
                    !.steps = Append(req[r].steps, "ProcessPayment")]
    IN  /\ IF err # Nil
           THEN /\ subscriptions' = IF compensate THEN d.store ELSE subscriptions
                /\ resp' = [done EXCEPT !.status = 500, !.body = ErrorBody,
                              !.deletes = IF compensate THEN <<sub.ID>> ELSE <<>>,
                              !.steps = IF compensate THEN Append(@, "Delete")
                                        ELSE @]
                /\ req' = [Written(r, sub.ID, compensate /\ d.found)
                              EXCEPT ![r] = IdleReq]
           ELSE /\ UNCHANGED subscriptions
                /\ resp' = done
                /\ req' = [req EXCEPT ![r] = IdleReq]
        /\ solo' = NoSolo
        /\ UNCHANGED <<repoVars, lockVars, processorVars, observeVars>>

V1createSubscription(r) ==
    \/ createSubscription(r, "v1")
    \/ /\ resp = NoResp
       /\ req[r].pc = "charging" /\ req[r].ver = "v1"
       /\ \E x \in PaymentExchanges :
            Reconcile(r, "v1", ProcessPayment(x), x, FALSE)

\* the V2 handler without its call of Repository.Delete
V2createSubscription_NoCompensation(r) ==
    \/ createSubscription(r, "v2")
    \/ /\ resp = NoResp
       /\ req[r].pc = "charging" /\ req[r].ver = "v2"
       /\ \E x \in PaymentExchanges :
            Reconcile(r, "v2", ProcessPayment(x), x, FALSE)

V2createSubscription(r) ==
    \/ createSubscription(r, "v2")
    \/ /\ resp = NoResp
       /\ req[r].pc = "charging" /\ req[r].ver = "v2"
       /\ \E x \in PaymentExchanges :
            Reconcile(r, "v2", ProcessPayment(x), x, TRUE)

V3createSubscription(r) ==
    \/ createSubscription(r, "v3")
    \/ /\ resp = NoResp
       /\ req[r].pc = "charging" /\ req[r].ver = "v3"
       /\ \E x \in PaymentExchanges :
            Reconcile(r, "v3", TraceOperation(ProcessPayment(x)), x, TRUE)

getSubscriptions(r, v) ==
    /\ resp = NoResp
    /\ req[r] = IdleReq
    /\ Answer(r, Response(r, v, "list", 200, ListBody(GetAll(subscriptions))))
    /\ UNCHANGED <<subscriptions, req, repoVars, lockVars, processorVars, observeVars>>

getSubscription(r, v) ==
    /\ resp = NoResp
    /\ req[r] = IdleReq
    /\ \E id \in SubIDs :
         LET g == GetByID(subscriptions, id)
         IN  IF ~g.found
             THEN Answer(r, [Response(r, v, "get", 404, ErrorBody) EXCEPT !.id = id])
             ELSE Answer(r, [Response(r, v, "get", 200, SubBody(g.ret)) EXCEPT !.id = id])
    /\ UNCHANGED <<subscriptions, req, repoVars, lockVars, processorVars, observeVars>>

V1updateSubscription(r) ==
    /\ resp = NoResp
    /\ req[r] = IdleReq
    /\ \E id \in SubIDs, in \in RequestBodies :
         LET u == Update(subscriptions, id, in.user_id, in.plan)
             rejected == [Response(r, "v1", "update", 400, ErrorBody) EXCEPT
                             !.id = id, !.in = in]
         IN  IF ~in.decodes
             THEN Answer(r, rejected) /\ UNCHANGED <<subscriptions, req>>
             ELSE IF ~IsValidPlan(in.plan)
             THEN Answer(r, rejected) /\ UNCHANGED <<subscriptions, req>>
             ELSE /\ subscriptions' = u.store
                  /\ req' = Written(r, id, u.found)
                  /\ IF ~u.found
                     THEN Answer(r, [rejected EXCEPT !.status = 404,
                                        !.updateCalled = TRUE])
                     ELSE Answer(r, [rejected EXCEPT !.status = 200,
                                        !.body = SubBody(u.ret),
                                        !.updateCalled = TRUE,
                                        !.updateFound = TRUE])
    /\ UNCHANGED <<repoVars, lockVars, processorVars, observeVars>>

\* the V2 and V3 handlers: decode, validate and GetByID; then Update
updateSubscription(r, v) ==
    /\ resp = NoResp
    /\ \/ /\ req[r] = IdleReq
          /\ \E id \in SubIDs, in \in RequestBodies :
               LET g == GetByID(subscriptions, id)
                   rejected == [Response(r, v, "update", 400, ErrorBody) EXCEPT
                                   !.id = id, !.in = in]
               IN  IF ~in.decodes
                   THEN Answer(r, rejected) /\ UNCHANGED req
                   ELSE IF ~IsValidPlan(in.plan)
                   THEN Answer(r, rejected) /\ UNCHANGED req
                   ELSE IF ~g.found
                   THEN Answer(r, [rejected EXCEPT !.status = 404]) /\ UNCHANGED req
                   ELSE /\ req' = [req EXCEPT ![r] =
                               [pc |-> "updating", ver |-> v, id |-> id, in |-> in]]
                        /\ solo' = NoSolo
                        /\ UNCHANGED resp
          /\ UNCHANGED subscriptions
       \/ /\ req[r].pc = "updating" /\ req[r].ver = v
          /\ LET u == Update(subscriptions, req[r].id, req[r].in.user_id,
                             req[r].in.plan)
             IN  /\ subscriptions' = u.store
                 /\ resp' = [Response(r, v, "update", 200, SubBody(u.ret)) EXCEPT
                                !.id = req[r].id, !.in = req[r].in,
                                !.updateCalled = TRUE, !.updateFound = u.found]
                 /\ req' = [Written(r, req[r].id, u.found) EXCEPT ![r] = IdleReq]
          /\ solo' = NoSolo
    /\ UNCHANGED <<repoVars, lockVars, processorVars, observeVars>>

V2updateSubscription(r) == updateSubscription(r, "v2")

V3updateSubscription(r) == updateSubscription(r, "v3")

deleteSubscription(r, v) ==
    /\ resp = NoResp
    /\ req[r] = IdleReq
    /\ \E id \in SubIDs :
         LET d == Delete(subscriptions, id)
         IN  /\ subscriptions' = d.store
             /\ req' = Written(r, id, d.found)
             /\ IF ~d.found
                THEN Answer(r, [Response(r, v, "delete", 404, ErrorBody) EXCEPT
                                   !.id = id, !.deletes = <<id>>])
                ELSE Answer(r, [Response(r, v, "delete", 204, NoContent) EXCEPT
                                   !.id = id, !.deletes = <<id>>])
    /\ UNCHANGED <<repoVars, lockVars, processorVars, observeVars>>

HandlerReturns ==
    /\ resp # NoResp
    /\ resp' = NoResp
    /\ UNCHANGED <<subscriptions, req, solo, repoVars, lockVars, processorVars, observeVars>>

Next ==
    \/ \E r \in Requests :
         \/ V1createSubscription(r)
         \/ V2createSubscription(r)
         \/ V3createSubscription(r)
         \/ \E v \in Versions : getSubscriptions(r, v)
         \/ \E v \in Versions : getSubscription(r, v)
         \/ V1updateSubscription(r)
         \/ V2updateSubscription(r)
         \/ V3updateSubscription(r)
         \/ \E v \in Versions : deleteSubscription(r, v)
    \/ HandlerReturns

Spec == Init /\ [][Next]_vars

(* ------------------------- SpecLock: the repository's methods, by step *)
(* Goroutines call the repository's methods concurrently. A method takes    *)
(* r.mu, runs its body and releases r.mu on return (defer). The arguments   *)
(* are drawn when the body runs. A write of a record into the map is not    *)
(* one memory access: Update's assignment r.subscriptions[id] = sub is two  *)
(* steps (the words of UserID, then those of Plan), and GetAll's range      *)
(* visits one key per step, in any order. A goroutine that returns from     *)
(* Create may go on as a create workflow does: the payment call, then       *)
(* nothing or the compensating Delete.                                      *)

InsidePcs == {"body", "store", "range", "unlock"}

Inside(g) == goroutines[g].pc \in InsidePcs

Invoke(g) ==
    /\ goroutines[g].pc = "idle"
    /\ \E op \in ReadOps \cup WriteOps :
         /\ mu' = IF op \in WriteOps THEN Lock(mu, g) ELSE RLock(mu, g)
         /\ goroutines' = [goroutines EXCEPT ![g] =
                              [IdleGoroutine EXCEPT !.pc = "lock", !.op = op]]
    /\ UNCHANGED <<subscriptions, repoVars, handlerVars, processorVars, observeVars>>

\* Lock or RLock returns
Acquire(g) ==
    /\ goroutines[g].pc = "lock"
    /\ IF goroutines[g].op \in WriteOps THEN Locked(mu, g) ELSE RLocked(mu, g)
    /\ goroutines' = [goroutines EXCEPT ![g].pc =
                         IF goroutines[g].op = "GetAll" THEN "range" ELSE "body"]
    /\ UNCHANGED <<subscriptions, mu, repoVars, handlerVars, processorVars, observeVars>>

CreateBody(g) ==
    /\ goroutines[g].pc = "body" /\ goroutines[g].op = "Create"
    /\ \E n \in LockInts, w \in LockWrites, t1, t2 \in HandlerTimes :
         /\ t1 <= t2
         /\ LET c == Create(subscriptions, n, w.userID, w.plan, t1, t2)
            IN  /\ subscriptions' = c.store
                /\ goroutines' = [h \in Goroutines |->
                       IF h = g
                       THEN [goroutines[g] EXCEPT !.pc = "unlock",
                                !.sub = c.ret, !.ret.sub = c.ret]
                       ELSE IF goroutines[h].raced = c.ret.ID
                       THEN [goroutines[h] EXCEPT !.raced = ""]
                       ELSE goroutines[h]]
    /\ UNCHANGED <<mu, repoVars, handlerVars, processorVars, observeVars>>

\* Update up to the first half of r.subscriptions[id] = sub
UpdateBody(g) ==
    /\ goroutines[g].pc = "body" /\ goroutines[g].op = "Update"
    /\ \E id \in LockIDs, w \in LockWrites :
         LET u == Update(subscriptions, id, w.userID, w.plan)
         IN  IF ~u.found
             THEN /\ goroutines' = [goroutines EXCEPT ![g].pc = "unlock",
                                       ![g].id = id, ![g].ret.sub = u.ret,
                                       ![g].ret.found = FALSE]
                  /\ UNCHANGED subscriptions
             ELSE /\ goroutines' = [goroutines EXCEPT ![g].pc = "store",
                                       ![g].id = id, ![g].sub = u.ret]
                  /\ subscriptions' = MapPut(subscriptions, id,
                         [subscriptions[id] EXCEPT !.UserID = u.ret.UserID])
    /\ UNCHANGED <<mu, repoVars, handlerVars, processorVars, observeVars>>

\* the second half of r.subscriptions[id] = sub, and return sub, true
UpdateStore(g) ==
    /\ goroutines[g].pc = "store"
    /\ subscriptions' = MapPut(subscriptions, goroutines[g].id, goroutines[g].sub)
    /\ goroutines' = [goroutines EXCEPT ![g].pc = "unlock",
                         ![g].ret.sub = goroutines[g].sub,
                         ![g].ret.found = TRUE]
    /\ UNCHANGED <<mu, repoVars, handlerVars, processorVars, observeVars>>

DeleteBody(g) ==
    /\ goroutines[g].pc = "body" /\ goroutines[g].op = "Delete"
    /\ \E id \in (IF goroutines[g].id = "" THEN LockIDs ELSE {goroutines[g].id}) :
         LET d == Delete(subscriptions, id)
         IN  /\ subscriptions' = d.store
             /\ goroutines' = [h \in Goroutines |->
                    IF h = g
                    THEN [goroutines[g] EXCEPT !.pc = "unlock", !.id = id,
                             !.ret.sub = d.ret, !.ret.found = d.found]
                    ELSE IF /\ d.found
                            /\ goroutines[h].pc = "lock"
                            /\ goroutines[h].op = "Delete"
                            /\ goroutines[h].id \in {"", id}
                    THEN [goroutines[h] EXCEPT !.raced = id]
                    ELSE goroutines[h]]
    /\ UNCHANGED <<mu, repoVars, handlerVars, processorVars, observeVars>>

GetByIDBody(g) ==
    /\ goroutines[g].pc = "body" /\ goroutines[g].op = "GetByID"
    /\ \E id \in LockIDs :
         LET c == GetByID(subscriptions, id)
         IN  goroutines' = [goroutines EXCEPT ![g].pc = "unlock",
                               ![g].id = id, ![g].ret.sub = c.ret,
                               ![g].ret.found = c.found]
    /\ UNCHANGED <<subscriptions, mu, repoVars, handlerVars, processorVars, observeVars>>

\* one iteration of GetAll's range over r.subscriptions
GetAllRange(g) ==
    /\ goroutines[g].pc = "range"
    /\ \E k \in LockIDs \ goroutines[g].visited :
         goroutines' = [goroutines EXCEPT
             ![g].visited = @ \cup {k},
             ![g].ret.subs = IF k \in DOMAIN subscriptions
                             THEN @ \cup {subscriptions[k]} ELSE @,
             ![g].pc = IF goroutines[g].visited \cup {k} = LockIDs
                       THEN "unlock" ELSE "range"]
    /\ UNCHANGED <<subscriptions, mu, repoVars, handlerVars, processorVars, observeVars>>

CountBody(g) ==
    /\ goroutines[g].pc = "body" /\ goroutines[g].op = "Count"
    /\ goroutines' = [goroutines EXCEPT ![g].pc = "unlock",
                         ![g].ret.count = Count(subscriptions)]
    /\ UNCHANGED <<subscriptions, mu, repoVars, handlerVars, processorVars, observeVars>>

\* the deferred Unlock or RUnlock, and the return to the caller
Release(g) ==
    /\ goroutines[g].pc = "unlock"
    /\ mu' = IF goroutines[g].op \in WriteOps THEN Unlock(mu, g) ELSE RUnlock(mu, g)
    /\ \/ goroutines' = [goroutines EXCEPT ![g] = IdleGoroutine]
       \/ /\ goroutines[g].op = "Create"
          /\ goroutines' = [goroutines EXCEPT ![g] =
                 [IdleGoroutine EXCEPT !.pc = "charging",
                                       !.id = goroutines[g].ret.sub.ID]]
    /\ UNCHANGED <<subscriptions, repoVars, handlerVars, processorVars, observeVars>>

\* the payment call of a create workflow returns: nil, or an error and the
\* handler calls Repository.Delete(sub.ID)
Charge(g) ==
    /\ goroutines[g].pc = "charging"
    /\ \/ /\ goroutines' = [goroutines EXCEPT ![g] = IdleGoroutine]
          /\ UNCHANGED mu
       \/ /\ mu' = Lock(mu, g)
          /\ goroutines' = [goroutines EXCEPT ![g] =
                 [IdleGoroutine EXCEPT !.pc = "lock", !.op = "Delete",
                                       !.id = goroutines[g].id]]
    /\ UNCHANGED <<subscriptions, repoVars, handlerVars, processorVars, observeVars>>

\* the steps of a call that has been made
Proceed(g) ==
    \/ Acquire(g)
    \/ CreateBody(g)
    \/ UpdateBody(g)
    \/ UpdateStore(g)
    \/ DeleteBody(g)
    \/ GetByIDBody(g)
    \/ GetAllRange(g)
    \/ CountBody(g)
    \/ Release(g)
    \/ Charge(g)

NextLock == \E g \in Goroutines : Invoke(g) \/ Proceed(g)

SpecLock == Init /\ [][NextLock]_vars

\* the scheduler runs every goroutine that can take a step; the payment call
\* returns (the client's Timeout)
SpecLockFair ==
    Init /\ [][NextLock]_vars /\ \A g \in Goroutines : WF_vars(Proceed(g))

(* ------------------------------ SpecPay: PaymentProcessor.ProcessPayment *)
(* One call of the processor at a time, by step; the request context of the *)
(* call can be cancelled, or pass its deadline, while the call runs. The    *)
(* random draws (ShouldSimulateFailure, GetRandomFailureType, the extra     *)
(* delay's rand.Float64() < 0.1) are free choices. The models' exported     *)
(* CalculateFees is also called on its own.                                 *)

otherVars == <<subscriptions, repoVars, handlerVars, lockVars, observeVars>>

\* an HTTP request arrives at the payment service: the mux, then
\* PaymentHandler.ProcessPayment up to its call of the processor
ServeHTTP ==
    /\ processor = IdleProcessor
    /\ \E path \in RequestPaths, method \in RequestMethods, decodes \in BOOLEAN :
         LET served == [pc |-> "responded", path |-> path, method |-> method,
                        decodes |-> decodes, status |-> 0]
         IN  IF path \notin RegisteredRoutes
             THEN processor' = [processor EXCEPT !.http = [served EXCEPT !.status = 404]]
             ELSE IF method # "POST"
             THEN processor' = [processor EXCEPT !.http = [served EXCEPT !.status = 405]]
             ELSE IF ~decodes
             THEN processor' = [processor EXCEPT !.http = [served EXCEPT !.status = 400]]
             ELSE processor' = [processor EXCEPT !.http = [served EXCEPT !.pc = "handler"]]
    /\ UNCHANGED otherVars

\* ProcessPayment is called (by the handler, or directly): the span, the log
\* line and the validation
ProcessorValidate ==
    /\ processor.pc = "idle"
    /\ processor.http.pc \in {"none", "handler"}
    /\ \E r \in PaymentRequests, cfg \in ProcessorConfigs :
         LET v == ValidatePaymentRequest(r)
             called == [IdleProcessor EXCEPT !.req = r, !.cfg = cfg,
                                             !.http = processor.http]
         IN  IF v # NoPaymentError
             THEN processor' = [called EXCEPT !.pc = "return", !.err = v]
             ELSE processor' = [called EXCEPT !.pc =
                      IF cfg.ProcessingDelay > 0 THEN "delay" ELSE "outcome"]
    /\ UNCHANGED otherVars

\* the request context is done while the processor sleeps
ContextDone ==
    /\ processor.pc \in {"delay", "extra_delay"}
    /\ processor.ctx = LiveContext
    /\ \E e \in ContextErrors :
         processor' = [processor EXCEPT !.ctx = [err |-> e, during |-> processor.pc]]
    /\ UNCHANGED otherVars

\* time.Sleep(p.config.ProcessingDelay) returns
ProcessorDelay ==
    /\ processor.pc = "delay"
    /\ processor' = [processor EXCEPT !.pc = "outcome", !.slept = TRUE]
    /\ UNCHANGED otherVars

\* an outcome that draws a failure whether or not failures are enabled
ProcessorOutcome_IgnoresEnableFailures ==
    /\ processor.pc = "outcome"
    /\ \/ \E failure \in GetRandomFailureType :
            processor' = [processor EXCEPT
                !.pc = "return", !.rolled = TRUE, !.err = failure,
                !.response = [Status |-> "failed",
                              Amount |-> processor.req.Amount, Fees |-> 0]]
       \/ \E extra \in BOOLEAN :
            processor' = [processor EXCEPT
                !.pc = IF extra THEN "extra_delay" ELSE "return",
                !.rolled = processor.cfg.EnableFailures,
                !.response = [Status |-> "completed",
                              Amount |-> processor.req.Amount,
                              Fees |-> CalculateFees(processor.req.Amount,
                                                     processor.req.Plan)]]
    /\ UNCHANGED otherVars

\* the simulated failure or the completed response
ProcessorOutcome ==
    /\ processor.pc = "outcome"
    /\ \/ /\ processor.cfg.EnableFailures
          /\ \E failure \in GetRandomFailureType :
               processor' = [processor EXCEPT
                   !.pc = "return", !.rolled = TRUE, !.err = failure,
                   !.response = [Status |-> "failed",
                                 Amount |-> processor.req.Amount, Fees |-> 0]]
       \/ \E extra \in BOOLEAN :
            processor' = [processor EXCEPT
                !.pc = IF extra THEN "extra_delay" ELSE "return",
                !.rolled = processor.cfg.EnableFailures,
                !.response = [Status |-> "completed",
                              Amount |-> processor.req.Amount,
                              Fees |-> CalculateFees(processor.req.Amount,
                                                     processor.req.Plan)]]
    /\ UNCHANGED otherVars

\* time.Sleep(extraDelay) returns
ProcessorExtraDelay ==
    /\ processor.pc = "extra_delay"
    /\ processor' = [processor EXCEPT !.pc = "return"]
    /\ UNCHANGED otherVars

\* models.CalculateFees(amount, plan), called on its own
CalculateFeesCall ==
    /\ processor = IdleProcessor
    /\ \E amount \in PayAmounts, plan \in PayPlans :
         processor' = [IdleProcessor EXCEPT
             !.pc = "fees", !.req.Amount = amount, !.req.Plan = plan,
             !.response.Fees = CalculateFees(amount, plan)]
    /\ UNCHANGED otherVars

\* PaymentHandler.ProcessPayment from the return of the processor on
PaymentHandlerResponds ==
    /\ processor.pc = "return"
    /\ processor.http.pc = "handler"
    /\ processor' = [processor EXCEPT
           !.http.pc = "responded",
           !.http.status = IF processor.err # NoPaymentError
                           THEN handlePaymentError(processor.err)
                           ELSE 200]
    /\ UNCHANGED otherVars

\* the direct caller has its values, or the response has been written
ProcessorReturns ==
    /\ \/ processor.pc = "fees"
       \/ processor.pc = "return" /\ processor.http = NoHTTP
       \/ processor.http.pc = "responded"
    /\ processor' = IdleProcessor
    /\ UNCHANGED otherVars

NextPay ==
    \/ ServeHTTP
    \/ ProcessorValidate
    \/ ContextDone
    \/ ProcessorDelay
    \/ ProcessorOutcome
    \/ ProcessorExtraDelay
    \/ CalculateFeesCall
    \/ PaymentHandlerResponds
    \/ ProcessorReturns

SpecPay == Init /\ [][NextPay]_vars

(* ------------------- SpecGauge: the handlers and the gauge of the V3 ones *)
(* The create, update and delete handlers of the three versions, with what  *)
(* they do to the store and to MetricsV3.SubscriptionsActive. A request     *)
(* that a handler rejects before its first repository call changes neither  *)
(* and is left out; the responses are not kept. The gauge moves within      *)
(* -MaxGauge .. MaxGauge.                                                   *)

gaugeOther == <<resp, solo, repoVars, lockVars, processorVars, logVars>>

\* the bodies the create handlers accept
AcceptedCreates ==
    {in \in RequestBodies :
        in.decodes /\ in.user_id # "" /\ in.plan # "" /\ IsValidPlan(in.plan)}

\* the bodies the update handlers accept
AcceptedUpdates == {in \in RequestBodies : in.decodes /\ IsValidPlan(in.plan)}

\* a create handler up to its payment call
GaugeCreate(r, v) ==
    /\ req[r] = IdleReq
    /\ \E in \in AcceptedCreates, n \in RandInts, t \in HandlerTimes :
         LET c == Create(subscriptions, n, in.user_id, in.plan, t, t)
         IN  /\ subscriptions' = c.store
             /\ req' = [req EXCEPT ![r] =
                           [pc |-> "charging", ver |-> v, id |-> c.ret.ID]]
    /\ UNCHANGED <<subscriptionsActive, gaugeOther>>

\* a create handler from the return of ProcessPayment on: V2 and V3 delete
\* the record on an error, V3 counts the subscription on success
GaugeReconcile(r) ==
    /\ req[r].pc = "charging"
    /\ \E x \in PaymentExchanges :
         IF ProcessPayment(x) # Nil
         THEN /\ subscriptions' = IF req[r].ver = "v1"
                                  THEN subscriptions
                                  ELSE Delete(subscriptions, req[r].id).store
              /\ UNCHANGED subscriptionsActive
         ELSE /\ UNCHANGED subscriptions
              /\ IF req[r].ver = "v3"
                 THEN /\ subscriptionsActive < MaxGauge
                      /\ subscriptionsActive' = subscriptionsActive + 1
                 ELSE UNCHANGED subscriptionsActive
    /\ req' = [req EXCEPT ![r] = IdleReq]
    /\ UNCHANGED gaugeOther

\* V1: Update; V2 and V3: GetByID, then Update
GaugeUpdate(r, v) ==
    /\ \/ /\ v = "v1"
          /\ req[r] = IdleReq
          /\ \E id \in SubIDs, in \in AcceptedUpdates :
               subscriptions' = Update(subscriptions, id, in.user_id, in.plan).store
          /\ UNCHANGED req
       \/ /\ v # "v1"
          /\ req[r] = IdleReq
          /\ \E id \in SubIDs, in \in AcceptedUpdates :
               /\ GetByID(subscriptions, id).found
               /\ req' = [req EXCEPT ![r] =
                             [pc |-> "updating", ver |-> v, id |-> id, in |-> in]]
          /\ UNCHANGED subscriptions
       \/ /\ v # "v1"
          /\ req[r].pc = "updating" /\ req[r].ver = v
          /\ subscriptions' = Update(subscriptions, req[r].id, req[r].in.user_id,
                                     req[r].in.plan).store
          /\ req' = [req EXCEPT ![r] = IdleReq]
    /\ UNCHANGED <<subscriptionsActive, gaugeOther>>

\* Delete; V3 decrements the gauge when the record was found
GaugeDelete(r, v) ==
    /\ req[r] = IdleReq
    /\ \E id \in SubIDs :
         LET d == Delete(subscriptions, id)
         IN  /\ subscriptions' = d.store
             /\ IF v = "v3" /\ d.found
                THEN /\ subscriptionsActive > 0 - MaxGauge
                     /\ subscriptionsActive' = subscriptionsActive - 1
                ELSE UNCHANGED subscriptionsActive
    /\ UNCHANGED <<req, gaugeOther>>

NextGauge ==
    \E r \in Requests :
        \/ \E v \in Versions : GaugeCreate(r, v)
        \/ GaugeReconcile(r)
        \/ \E v \in Versions : GaugeUpdate(r, v)
        \/ \E v \in Versions : GaugeDelete(r, v)

SpecGauge == Init /\ [][NextGauge]_vars

(* ----------------------------------- SpecLog: the LogstashWriter, by step *)
(* Goroutines call Write and Close of one LogstashWriter. Write takes w.mu  *)
(* and releases it on return (defer); Close takes no lock, so that its two  *)
(* reads of w.conn race with the writes of w.conn in Write: each read sees  *)
(* the field as it is or as it was, or a torn interface value. SetWrite-    *)
(* Deadline and Write fail on a closed connection and may fail on an open   *)
(* one; at most MaxDials connections are dialled.                           *)

logOther == <<subscriptions, repoVars, handlerVars, lockVars, processorVars,
             gaugeVars>>

LogLens == 1..MaxLogLen

\* an error path that closes the connection and keeps w.conn
DropConnection_KeepsConn(w) == [w EXCEPT !.open = @ \ {w.conn}]

\* w.conn.Close(); w.conn = nil
DropConnection(w) == [w EXCEPT !.open = @ \ {w.conn}, !.conn = NoConn]

\* return n, nil of the Write call c, after the step named failed failed
WriteReturn(c, failed) == [c EXCEPT !.pc = "unlock", !.failed = failed, !.err = Nil]

\* a goroutine calls Write(p) or Close()
LogInvoke(g) ==
    /\ ~logstash.panicked
    /\ logcalls[g] = IdleLogCall
    /\ \/ \E len \in LogLens, parses \in BOOLEAN :
            logcalls' = [logcalls EXCEPT ![g] =
                [IdleLogCall EXCEPT !.pc = "lock", !.op = "Write",
                                    !.len = len, !.parses = parses]]
       \/ logcalls' = [logcalls EXCEPT ![g] =
                [IdleLogCall EXCEPT !.pc = "close", !.op = "Close"]]
    /\ UNCHANGED <<logstash, logOther>>

\* w.mu.Lock(); n = len(p); json.Unmarshal(p, &logEntry)
WriteLock(g) ==
    /\ ~logstash.panicked
    /\ logcalls[g].pc = "lock"
    /\ logstash.mu = ""
    /\ logstash' = [logstash EXCEPT !.mu = g]
    /\ LET c == [logcalls[g] EXCEPT !.n = logcalls[g].len]
       IN  logcalls' = [logcalls EXCEPT ![g] =
               IF ~c.parses
               THEN WriteReturn(c, "unmarshal")
               ELSE [c EXCEPT !.pc = "connect"]]
    /\ UNCHANGED logOther

\* w.connect(), then json.Marshal(logEntry), whose error branch no map that
\* Unmarshal made can take, and the length of logJSON
WriteConnect(g) ==
    /\ ~logstash.panicked
    /\ logcalls[g].pc = "connect"
    /\ IF logstash.conn # NoConn
       THEN /\ \E total \in LogLens :
                 logcalls' = [logcalls EXCEPT ![g].pc = "deadline",
                                 ![g].used = logstash.conn,
                                 ![g].total = total]
            /\ UNCHANGED logstash
       ELSE \/ /\ logstash.dials < MaxDials
               /\ logstash' = [logstash EXCEPT
                      !.conn = logstash.dials + 1,
                      !.open = @ \cup {logstash.dials + 1},
                      !.dials = @ + 1]
               /\ \E total \in LogLens :
                    logcalls' = [logcalls EXCEPT ![g].pc = "deadline",
                                    ![g].used = logstash.dials + 1,
                                    ![g].dialled = TRUE,
                                    ![g].total = total]
            \/ /\ logcalls' = [logcalls EXCEPT ![g] =
                                  WriteReturn(logcalls[g], "connect")]
               /\ UNCHANGED logstash
    /\ UNCHANGED logOther

\* w.conn.SetWriteDeadline(deadline)
WriteSetDeadline(g) ==
    /\ ~logstash.panicked
    /\ logcalls[g].pc = "deadline"
    /\ \/ /\ logstash.conn \in logstash.open
          /\ logcalls' = [logcalls EXCEPT ![g].pc = "write"]
          /\ UNCHANGED logstash
       \/ /\ logstash' = DropConnection(logstash)
          /\ logcalls' = [logcalls EXCEPT ![g] =
                             WriteReturn(logcalls[g], "deadline")]
    /\ UNCHANGED logOther

\* one turn of the loop: nw, err = w.conn.Write(logJSON[written:])
WriteLoop(g) ==
    /\ ~logstash.panicked
    /\ logcalls[g].pc = "write"
    /\ \/ /\ logstash.conn \in logstash.open
          /\ \E nw \in 1..(logcalls[g].total - logcalls[g].written) :
               logcalls' = [logcalls EXCEPT ![g] =
                   IF logcalls[g].written + nw = logcalls[g].total
                   THEN WriteReturn([logcalls[g] EXCEPT !.written = @ + nw], "")
                   ELSE [logcalls[g] EXCEPT !.written = @ + nw]]
          /\ UNCHANGED logstash
       \/ /\ logstash' = DropConnection(logstash)
          /\ logcalls' = [logcalls EXCEPT ![g] =
                             WriteReturn(logcalls[g], "write")]
    /\ UNCHANGED logOther

\* the deferred w.mu.Unlock()
WriteUnlock(g) ==
    /\ ~logstash.panicked
    /\ logcalls[g].pc = "unlock"
    /\ logstash' = [logstash EXCEPT !.mu = ""]
    /\ logcalls' = [logcalls EXCEPT ![g].pc = "done"]
    /\ UNCHANGED logOther

\* Close: if w.conn != nil
CloseRead(g) ==
    /\ ~logstash.panicked
    /\ logcalls[g].pc = "close"
    /\ logcalls' = [logcalls EXCEPT
           ![g].pc = IF logstash.conn = NoConn THEN "done" ELSE "closing",
           ![g].used = logstash.conn]
    /\ UNCHANGED <<logstash, logOther>>

\* Close: return w.conn.Close(), on the connection read before or on the
\* field as it is now (nil: the call panics), or on a torn value, which
\* closes nothing
CloseCall(g) ==
    /\ ~logstash.panicked
    /\ logcalls[g].pc = "closing"
    /\ \/ \E c \in {logcalls[g].used, logstash.conn} :
            IF c = NoConn
            THEN logstash' = [logstash EXCEPT !.panicked = TRUE]
            ELSE logstash' = [logstash EXCEPT !.open = @ \ {c}]
       \/ UNCHANGED logstash
    /\ logcalls' = [logcalls EXCEPT ![g].pc = "done"]
    /\ UNCHANGED logOther

\* the caller has the values
LogReturn(g) ==
    /\ ~logstash.panicked
    /\ logcalls[g].pc = "done"
    /\ logcalls' = [logcalls EXCEPT ![g] = IdleLogCall]
    /\ UNCHANGED <<logstash, logOther>>

NextLog ==
    \E g \in LogGoroutines :
        \/ LogInvoke(g)
        \/ WriteLock(g)
        \/ WriteConnect(g)
        \/ WriteSetDeadline(g)
        \/ WriteLoop(g)
        \/ WriteUnlock(g)
        \/ CloseRead(g)
        \/ CloseCall(g)
        \/ LogReturn(g)

SpecLog == Init /\ [][NextLog]_vars

(* ================================================================ claims *)

\* the payment exchange x ended in any of the failures of a charge attempt:
\* no request built or sent, a status other than 200, an undecodable body
ExchangeFailed(x) == x.do # "ok" \/ x.status # 200 \/ ~x.decodes

CompensatingVersions == {"v2", "v3"}

\* C1: when a V2 or V3 create workflow returns its failure response, GetByID
\* of the identifier it provisioned reports found = FALSE, and if no other
\* request ran during the workflow, Count() is what it was when it began.
C1_CompensationRestoresStore ==
    (resp.op = "create" /\ resp.ver \in CompensatingVersions /\ resp.status = 500)
        => /\ ~GetByID(subscriptions, resp.id).found
           /\ resp.solo => Count(subscriptions) = resp.countBefore

\* C2: when the V1 create workflow returns 500 after a failed payment, the
\* record it created is no longer in the store.
C2_V1NoRecordOutlivesFailedPayment ==
    (resp.op = "create" /\ resp.ver = "v1" /\ resp.status = 500)
        => ~GetByID(subscriptions, resp.id).found

\* C3: a V2 or V3 create workflow calls Repository.Delete exactly once, on the
\* identifier it provisioned, when its charge attempt failed (whatever the
\* failure), and never when the charge attempt succeeded.
C3_DeleteOncePerFailedCharge ==
    (resp.op = "create" /\ resp.ver \in CompensatingVersions
                        /\ resp.exchange # NoExchange)
        => /\ Len(resp.payments) = 1
           /\ resp.payments[1].SubscriptionID = resp.id
           /\ resp.deletes = IF ExchangeFailed(resp.exchange)
                             THEN <<resp.id>> ELSE <<>>
           /\ resp.status = IF ExchangeFailed(resp.exchange) THEN 500 ELSE 200

C3_Witness ==
    /\ resp.op = "create" /\ resp.ver = "v3"
    /\ resp.exchange.do = "context_canceled"
    /\ resp.deletes = <<resp.id>>
    /\ resp.status = 500

\* C4 (as claimed): after every create workflow whose payment succeeded,
\* GetByID of its identifier reports found = TRUE with the request's user id
\* and plan, whatever other requests interleaved with the workflow.
C4_PersistsUnderAnyInterleaving ==
    (resp.op = "create" /\ resp.status = 200)
        => LET g == GetByID(subscriptions, resp.id)
           IN  /\ g.found
               /\ g.ret.UserID = resp.in.user_id
               /\ g.ret.Plan = resp.in.plan

\* C4 (amended): after every create workflow whose payment succeeded, GetByID
\* of its identifier reports found = TRUE with the request's user id and plan,
\* also when other requests interleaved with the workflow, provided none of
\* them wrote the entry of that identifier meanwhile (an Update or Delete that
\* found it, or a Create that drew the same identifier).
C4_PersistsUnlessWritten ==
    (resp.op = "create" /\ resp.status = 200 /\ ~resp.written)
        => LET g == GetByID(subscriptions, resp.id)
           IN  /\ g.found
               /\ g.ret.UserID = resp.in.user_id
               /\ g.ret.Plan = resp.in.plan
               /\ g.ret = resp.body.sub

C4_Witness ==
    /\ resp.op = "create" /\ resp.status = 200 /\ ~resp.written
    /\ ~resp.solo
    /\ \E q \in Requests : q # resp.r /\ req[q] # IdleReq
    /\ GetByID(subscriptions, resp.id).found
    /\ Count(subscriptions) = 2

\* C5: in every handler version, a create request with an empty user id, an
\* empty plan or a plan other than "basic" and "premium" is answered 400,
\* with the store as it was and no call of ProcessPayment.
C5_InvalidCreateRejected ==
    (resp.op = "create" /\ (\/ resp.in.user_id = ""
                            \/ resp.in.plan = ""
                            \/ resp.in.plan \notin {"basic", "premium"}))
        => /\ resp.status = 400
           /\ subscriptions = resp.before
           /\ resp.payments = <<>>
           /\ resp.id = ""

C5_Witness ==
    /\ resp.op = "create" /\ resp.ver = "v1"
    /\ resp.in.decodes /\ resp.in.user_id = "u1" /\ resp.in.plan = "gold"
    /\ resp.status = 400
    /\ Count(subscriptions) = 1

\* C6: after N calls of Create and no Delete, the store holds exactly N
\* entries (the N identifiers returned are pairwise distinct).
C6_NCreatesNEntries ==
    creates # NoRun => Count(subscriptions) = creates

\* C7: Update of an existing record changes that record's user id and plan
\* and nothing else: its identifier, start date and end date, every other
\* record and Count() are as before.
C7_UpdateChangesOnlyUserAndPlan ==
    (last.op = "Update" /\ last.id \in DOMAIN last.before)
        => /\ last.found
           /\ DOMAIN subscriptions = DOMAIN last.before
           /\ Count(subscriptions) = Count(last.before)
           /\ \A k \in DOMAIN last.before :
                k # last.id => subscriptions[k] = last.before[k]
           /\ subscriptions[last.id].UserID = last.userID
           /\ subscriptions[last.id].Plan = last.plan
           /\ subscriptions[last.id].ID = last.before[last.id].ID
           /\ subscriptions[last.id].StartDate = last.before[last.id].StartDate
           /\ subscriptions[last.id].EndDate = last.before[last.id].EndDate
           /\ last.ret = subscriptions[last.id]

C7_Witness ==
    /\ last.op = "Update" /\ last.found
    /\ Count(last.before) = 2
    /\ last.before[last.id].UserID # last.userID
    /\ last.before[last.id].Plan # last.plan
    /\ last.ret.EndDate # AddDate(last.ret.StartDate)

\* C8: Delete of an existing record reports found = TRUE with the record and
\* removes it; a second Delete of the same identifier, no Create in between,
\* reports found = FALSE and leaves the store as it was.
C8_DeleteTwice ==
    /\ (last.op = "Delete" /\ last.id \in DOMAIN last.before)
          => /\ last.found
             /\ last.ret = last.before[last.id]
             /\ last.id \notin DOMAIN subscriptions
    /\ (last.op = "Delete" /\ last.previous = [id |-> last.id, found |-> TRUE])
          => /\ ~last.found
             /\ last.ret = ZeroSubscription
             /\ subscriptions = last.before

C8_Witness ==
    /\ last.op = "Delete"
    /\ last.previous = [id |-> last.id, found |-> TRUE]
    /\ ~last.found
    /\ Count(subscriptions) = 1

\* C9: Update of an identifier that is not in the store reports found = FALSE
\* with the zero-value record and leaves the store as it was.
C9_UpdateOfAbsentId ==
    (last.op = "Update" /\ last.id \notin DOMAIN last.before)
        => /\ ~last.found
           /\ last.ret = ZeroSubscription
           /\ subscriptions = last.before
           /\ last.id \notin DOMAIN subscriptions

C9_Witness ==
    /\ last.op = "Update" /\ ~last.found
    /\ last.id \notin DOMAIN last.before
    /\ Count(last.before) = 1

\* C10: in every handler version, an update request with a valid plan is
\* answered 200 with a record only if Repository.Update found the identifier;
\* when the identifier is absent at the store update the answer is 404.
C10_UpdateAnswersFoundOnly ==
    (resp.op = "update" /\ resp.updateCalled)
        => /\ resp.status = 200 => (resp.updateFound /\ resp.body.sub # ZeroSubscription)
           /\ ~resp.updateFound => resp.status = 404

\* C11: a goroutine is inside the critical section of Create, Update or Delete
\* only while no other goroutine is inside the critical section of any
\* repository method; readers (GetByID, GetAll, Count) may be inside together.
C11_WriterExcludesAll ==
    \A g, h \in Goroutines :
        (g # h /\ Inside(g) /\ goroutines[g].op \in WriteOps) => ~Inside(h)

C11_Witness ==
    \E g, h, k \in Goroutines :
        /\ g # h
        /\ Inside(g) /\ goroutines[g].op = "GetByID"
        /\ Inside(h) /\ goroutines[h].op = "GetAll" /\ goroutines[h].visited # {}
        /\ goroutines[k].pc = "lock" /\ goroutines[k].op \in WriteOps /\ mu.w = k

\* the user id and plan of rec were written by one call
Whole(rec) == [userID |-> rec.UserID, plan |-> rec.Plan] \in LockWrites

\* C12: what GetByID and GetAll return is the store of one instant, with
\* every write whole: a record has the user id and plan of one Create or
\* Update (never the user id of one and the plan of another), and GetAll's
\* records are the store's records (the set before a write or the set after).
C12_ReadsSeeWholeWrites ==
    \A g \in Goroutines :
        LET c == goroutines[g]
        IN  /\ (c.pc = "unlock" /\ c.op = "GetByID")
                  => /\ c.ret.found = (c.id \in DOMAIN subscriptions)
                     /\ c.ret.found => (Whole(c.ret.sub)
                                          /\ c.ret.sub = subscriptions[c.id])
                     /\ ~c.ret.found => c.ret.sub = ZeroSubscription
            /\ (c.pc = "unlock" /\ c.op = "GetAll")
                  => /\ c.ret.subs = GetAll(subscriptions)
                     /\ \A rec \in c.ret.subs : Whole(rec)

C12_Witness ==
    \E g, h, k \in Goroutines :
        /\ goroutines[g].pc = "unlock" /\ goroutines[g].op = "GetByID"
        /\ goroutines[g].ret.found
        /\ goroutines[h].pc = "unlock" /\ goroutines[h].op = "GetAll"
        /\ goroutines[h].ret.subs # {}
        /\ goroutines[k].pc = "lock" /\ goroutines[k].op = "Update" /\ mu.w = k

\* g has called a repository method that has not returned
Invoked(g) == goroutines[g].pc \in InsidePcs \cup {"lock"}

HoldsNothing(g) ==
    /\ mu.w # g
    /\ g \notin mu.readers \cup mu.blocked
    /\ \A i \in 1..Len(mu.wq) : mu.wq[i] # g

\* C13: under a fair scheduler every repository call that is made takes the
\* lock, runs and returns with the lock released, whatever the other
\* goroutines call; during the payment call of a create workflow the
\* goroutine holds no lock and waits for none.
C13_EveryCallReturns ==
    /\ \A g \in Goroutines : Invoked(g) ~> (~Invoked(g) /\ HoldsNothing(g))
    /\ [](\A g \in Goroutines : goroutines[g].pc = "charging" => HoldsNothing(g))

C13_Witness ==
    \E g, h, k \in Goroutines :
        /\ Inside(g) /\ goroutines[g].op = "Delete" /\ goroutines[g].id # ""
        /\ mu.wq = <<h>>
        /\ mu.blocked = {k}


\* C14: when the request context is cancelled or passes its deadline while
\* the payment call is in flight, the create workflow of every handler
\* version answers 500, has called Repository.Delete on the record it
\* provisioned, and the record is not in the store.
C14_CancellationCompensates ==
    (resp.op = "create" /\ resp.exchange.do \in ContextErrors)
        => /\ resp.status = 500
           /\ resp.deletes = <<resp.id>>
           /\ ~GetByID(subscriptions, resp.id).found

\* C18: the payment request of a create workflow carries the identifier that
\* the workflow's own call of Repository.Create returned, the plan of that
\* record and the plan's price (10.00 for "basic", 20.00 for "premium", never
\* the 0.00 of an unrecognized plan), and it is issued after the record was
\* inserted; while the payment call is in flight the request is the same.
C18_PaymentRequestOfCreatedRecord ==
    /\ (resp.op = "create" /\ resp.payments # <<>>)
          => /\ Len(resp.payments) = 1
             /\ resp.payments[1].SubscriptionID = resp.id
             /\ resp.id \in SubIDs
             /\ resp.payments[1].Plan = resp.in.plan
             /\ resp.payments[1].Amount =
                   (IF resp.in.plan = "basic" THEN 1000 ELSE 2000)
             /\ resp.in.plan \in {"basic", "premium"}
             /\ SubSeq(resp.steps, 1, 2) = <<"Create", "ProcessPayment">>
    /\ \A r \in Requests :
          req[r].pc = "charging"
             => /\ req[r].steps = <<"Create">>
                /\ req[r].paymentReq =
                      [SubscriptionID |-> req[r].sub.ID,
                       Amount |-> IF req[r].in.plan = "basic" THEN 1000 ELSE 2000,
                       Plan |-> req[r].in.plan]
                /\ req[r].sub.Plan = req[r].in.plan

C18_Witness ==
    /\ resp.op = "create" /\ resp.ver = "v3" /\ resp.status = 200
    /\ resp.in.plan = "premium"
    /\ resp.payments = <<[SubscriptionID |-> "sub_2", Amount |-> 2000,
                          Plan |-> "premium"]>>
    /\ \E r \in Requests : /\ req[r].pc = "charging"
                           /\ req[r].paymentReq.Amount = 1000

\* C20: a create workflow ends in one of three ways: rejected (400, no call
\* of the repository or the payment service, the store as it was), failed
\* (500 after Create, ProcessPayment and the compensating Delete, in that
\* order) or succeeded (200 with the record after Create and ProcessPayment,
\* in that order); the charge is attempted once, after the record was created.
C20_CreateOutcomes ==
    resp.op = "create"
        => \/ /\ resp.status = 400
              /\ resp.steps = <<>>
              /\ resp.payments = <<>>
              /\ subscriptions = resp.before
           \/ /\ resp.status = 500
              /\ resp.steps = <<"Create", "ProcessPayment", "Delete">>
              /\ Len(resp.payments) = 1
              /\ ExchangeFailed(resp.exchange)
           \/ /\ resp.status = 200
              /\ resp.steps = <<"Create", "ProcessPayment">>
              /\ Len(resp.payments) = 1
              /\ ~ExchangeFailed(resp.exchange)
              /\ resp.body.kind = "sub" /\ resp.body.sub.ID = resp.id

\* C19: every record in the store ends exactly one year after it starts:
\* Create stores EndDate = StartDate + 1 year, and no other method changes
\* either date.
C19_EndIsStartPlusOneYear ==
    \A k \in DOMAIN subscriptions :
        subscriptions[k].EndDate = subscriptions[k].StartDate + Year

\* C15: when the request context is cancelled or passes its deadline while
\* the processor sleeps (the processing delay or the extra delay), the
\* processor returns an error of the "timeout" kind and no completed payment.
C15_ProcessorRespectsContext ==
    (processor.pc = "return" /\ processor.ctx # LiveContext)
        => /\ processor.err.Type = "timeout"
           /\ processor.response.Status # "completed"

InvalidPaymentRequest(r) == r.SubscriptionID = "" \/ r.Amount <= 0 \/ r.Plan = ""

\* C16: for a request with an empty subscription id, an amount <= 0 or an
\* empty plan the processor returns a nil response and a "validation_error"
\* whose code is that of the first check failed (subscription id, then
\* amount, then plan), with no delay slept and no failure drawn; no simulated
\* failure has the type "validation_error".
C16_ValidationFirst ==
    /\ (processor.pc \notin {"idle", "fees"} /\ InvalidPaymentRequest(processor.req))
          => /\ processor.pc = "return"
             /\ processor.response = NilResponse
             /\ processor.err.Type = "validation_error"
             /\ processor.err.Code =
                   (IF processor.req.SubscriptionID = "" THEN "MISSING_SUBSCRIPTION_ID"
                    ELSE IF processor.req.Amount <= 0 THEN "INVALID_AMOUNT"
                    ELSE "MISSING_PLAN")
             /\ ~processor.slept /\ ~processor.rolled
    /\ (processor.pc = "return" /\ processor.err.Type = "validation_error")
          => InvalidPaymentRequest(processor.req)
    /\ \A failure \in GetRandomFailureType : failure.Type # "validation_error"
    /\ Cardinality({failure.Type : failure \in GetRandomFailureType}) = 5

C16_Witness ==
    /\ processor.pc = "return"
    /\ processor.req = [SubscriptionID |-> "sub_1", Amount |-> 0, Plan |-> ""]
    /\ processor.cfg = [ProcessingDelay |-> 100, EnableFailures |-> TRUE]
    /\ processor.err.Code = "INVALID_AMOUNT"

\* C17: the fee of every amount and plan is the larger of amount * rate and
\* 0.30, the rate being 2.5% for "premium", 2.0% for "enterprise" and 2.9%
\* for any other plan: it is 0.30 whenever amount * rate < 0.30, and never
\* less than 0.30; a completed payment carries that fee.
C17_FeesFlooredRate ==
    (processor.pc = "fees" \/ processor.response.Status = "completed")
        => LET amount == processor.req.Amount
               rate == IF processor.req.Plan = "premium" THEN 25
                       ELSE IF processor.req.Plan = "enterprise" THEN 20
                       ELSE 29
               fee == processor.response.Fees
           IN  /\ fee >= 30000
               /\ amount * rate < 30000 => fee = 30000
               /\ amount * rate >= 30000 => fee = amount * rate

C17_Witness ==
    /\ processor.response.Status = "completed"
    /\ processor.req.Plan = "basic" /\ processor.req.Amount = 1000
    /\ processor.response.Fees = 30000

HandlerAnswered == processor.http.pc = "responded" /\ processor.pc = "return"

\* the error PaymentService.ProcessPayment returns for a response of status st
ClientError(st) == ProcessPayment([do |-> "ok", status |-> st, decodes |-> TRUE])

\* C22: the payment handler answers 200 only when the processor returned no
\* error, 500 for the failure types processing_error, network_error and
\* timeout, 400 for insufficient_funds, invalid_card and validation errors;
\* PaymentService.ProcessPayment returns an error for every status that is
\* not 200.
C22_FailuresAreErrors ==
    /\ HandlerAnswered
          => /\ (processor.http.status = 200) <=> (processor.err = NoPaymentError)
             /\ processor.err.Type \in {"processing_error", "network_error", "timeout"}
                   => processor.http.status = 500
             /\ processor.err.Type \in {"insufficient_funds", "invalid_card",
                                        "validation_error"}
                   => processor.http.status = 400
    /\ processor.http.pc = "responded"
          => /\ processor.http.status # 200 => ClientError(processor.http.status) # Nil
             /\ processor.http.status = 200 => ClientError(processor.http.status) = Nil

C22_Witness ==
    /\ HandlerAnswered
    /\ processor.err.Type = "insufficient_funds"
    /\ processor.http.status = 400
    /\ ClientError(processor.http.status) = "payment failed with status"

\* C23: the request PaymentService.ProcessPayment sends is addressed to a
\* route the payment service registers: a POST to that path with a body
\* that decodes reaches PaymentHandler.ProcessPayment, and with a valid
\* request and failure injection disabled it is answered 200, so that the
\* client returns no error.
C23_ClientRequestIsRouted ==
    (/\ processor.http.pc = "responded"
     /\ processor.http.path = PaymentServicePath
     /\ processor.http.method = "POST"
     /\ processor.http.decodes)
        => /\ processor.pc = "return"
           /\ (~InvalidPaymentRequest(processor.req) /\ ~processor.cfg.EnableFailures)
                 => /\ processor.http.status = 200
                    /\ ClientError(processor.http.status) = Nil

\* C24: after any sequence of create, update and delete requests through the
\* handlers, every record in the store has a non-empty user id and the plan
\* "basic" or "premium".
C24_RecordsAreValid ==
    \A id \in DOMAIN subscriptions :
        /\ subscriptions[id].UserID # ""
        /\ subscriptions[id].Plan \in {"basic", "premium"}

\* the record that the response of a failed, compensating create removed
\* was in the store when the handler called Repository.Delete
CompensationRemoved ==
    /\ resp.op = "create" /\ resp.ver \in CompensatingVersions
    /\ resp.status = 500
    /\ resp.deletes = <<resp.id>>
    /\ resp.id \in DOMAIN resp.before

\* C25: the compensating delete of a failed create workflow removes only the
\* record this workflow provisioned: never the record that another create
\* workflow, whose payment is still in flight, provisioned after it under
\* the same identifier.
C25_CompensationRemovesOwnRecord ==
    (CompensationRemoved /\ resp.written)
        => \A q \in Requests \ {resp.r} :
               ~(req[q].pc = "charging" /\ req[q].sub.ID = resp.id)

\* C26: there is no pending state. While a create workflow waits for its
\* payment, the record it provisioned (unless another request has written
\* it since) is in the store as any record is: GetByID and GetAll return
\* it, Update and Delete find it; a reader that is answered 200 receives the
\* store's record, paid or not; and the record of a workflow that fails was
\* in the store until the compensating delete.
C26_NoPendingState ==
    /\ \A q \in Requests :
          (req[q].pc = "charging" /\ ~req[q].written)
              => LET sub == req[q].sub
                 IN  /\ GetByID(subscriptions, sub.ID).found
                     /\ GetByID(subscriptions, sub.ID).ret = sub
                     /\ sub \in GetAll(subscriptions)
                     /\ \A u \in UserIDs, p \in {"basic", "premium"} :
                           Update(subscriptions, sub.ID, u, p).found
                     /\ Delete(subscriptions, sub.ID).found
                     /\ Delete(subscriptions, sub.ID).ret = sub
    /\ (resp.op = "get" /\ resp.status = 200)
          => /\ resp.id \in DOMAIN subscriptions
             /\ resp.body.sub = subscriptions[resp.id]
    /\ (resp.op = "create" /\ resp.ver \in CompensatingVersions
           /\ resp.status = 500 /\ ~resp.written)
          => /\ resp.id \in DOMAIN resp.before
             /\ resp.before[resp.id].UserID = resp.in.user_id
             /\ resp.before[resp.id].Plan = resp.in.plan

\* a reader is answered 200 with the record of a workflow whose payment has
\* not returned
C26_Witness ==
    /\ resp.op = "get" /\ resp.status = 200
    /\ \E q \in Requests \ {resp.r} :
         /\ req[q].pc = "charging" /\ ~req[q].written
         /\ req[q].ver = "v3"
         /\ req[q].sub = resp.body.sub

\* no handler is between two of its steps
NoRequestInFlight == \A r \in Requests : req[r] = IdleReq

\* C27: the V3 gauge SubscriptionsActive is the number of records: it is
\* never negative, and whenever no request is in flight it equals
\* Repository.Count(), whichever versions' handlers the creates, updates and
\* deletes went through.
C27_GaugeIsCount ==
    /\ subscriptionsActive >= 0
    /\ NoRequestInFlight => subscriptionsActive = Count(subscriptions)

FailureTypes ==
    {"insufficient_funds", "invalid_card", "network_error", "processing_error",
     "timeout"}

\* C28: for a request that passes validation, the processor returns a nil
\* error exactly when the response's status is "completed", and then the
\* fees are CalculateFees(amount, plan); it returns a PaymentError of one of
\* the five failure types exactly when the status is "failed"; with
\* EnableFailures false it never fails.
C28_ErrorMatchesStatus ==
    (processor.pc = "return" /\ ~InvalidPaymentRequest(processor.req))
        => /\ (processor.err = NoPaymentError)
                 <=> (processor.response.Status = "completed")
           /\ (processor.err # NoPaymentError)
                 <=> (processor.response.Status = "failed")
           /\ processor.err = NoPaymentError
                 => /\ processor.response.Fees =
                          CalculateFees(processor.req.Amount, processor.req.Plan)
                    /\ processor.response.Amount = processor.req.Amount
           /\ processor.err # NoPaymentError
                 => /\ processor.err.Type \in FailureTypes
                    /\ processor.err \in GetRandomFailureType
           /\ ~processor.cfg.EnableFailures
                 => /\ processor.err = NoPaymentError
                    /\ processor.response.Status = "completed"

C28_Witness ==
    /\ processor.pc = "return"
    /\ ~InvalidPaymentRequest(processor.req)
    /\ processor.cfg.EnableFailures
    /\ processor.err.Type = "network_error"
    /\ processor.response.Status = "failed"

\* the goroutines inside Write, between Lock and Unlock
InWrite == {g \in LogGoroutines :
              logcalls[g].pc \in {"connect", "deadline", "write", "unlock"}}

\* C29: Write returns (len(p), nil) on every path; when setting the write
\* deadline or writing failed, the connection has been closed and w.conn is
\* nil when Write returns, so that the next Write dials a new connection;
\* Writes exclude each other, and at most one connection is open, the one
\* the writer holds.
C29_WriteNeverFails ==
    /\ \A g \in LogGoroutines :
          LET c == logcalls[g]
          IN  /\ (c.op = "Write" /\ c.pc \in {"unlock", "done"})
                    => c.n = c.len /\ c.err = Nil
              /\ (c.pc = "unlock" /\ c.failed \in {"deadline", "write"})
                    => /\ logstash.conn = NoConn
                       /\ c.used \notin logstash.open
              /\ c.pc \in {"deadline", "write"}
                    => /\ c.used = logstash.conn
                       /\ c.used # NoConn
                       /\ c.dialled => c.used = logstash.dials
              /\ (c.pc = "connect" /\ logstash.conn = NoConn)
                    => logstash.open = {}
    /\ Cardinality(InWrite) <= 1
    /\ InWrite = {g \in LogGoroutines : logstash.mu = g}
    /\ Cardinality(logstash.open) <= 1
    /\ logstash.open \subseteq {logstash.conn}

\* after a failed Write dropped the first connection, a Write has dialled
\* the second while the other goroutine waits for w.mu
C29_Witness ==
    \E g, h \in LogGoroutines :
        /\ g # h
        /\ logcalls[g].pc = "write"
        /\ logcalls[g].dialled
        /\ logcalls[g].used = 2
        /\ logstash.open = {2}
        /\ logcalls[h].pc = "lock"
====
